---- MODULE Spec2Model ----
(***************************************************************************)
(* A model of the AgriAI advisory application: the yield/price advisor     *)
(* (yield_prediction.py), the location resolver (final.py) and the profit  *)
(* dashboard (profit_dashboard.py).                                        *)
(*                                                                         *)
(* Text is modelled as a sequence of characters (one-character strings);   *)
(* language-model output as a sequence of tokens, where the labels         *)
(* "Yield:" and "Price:" are single tokens.  Python's None is the empty    *)
(* tuple and a present value v is the one-element tuple <<v>>.             *)
(* Floating-point quantities are fixed-point integers: yields are kept in  *)
(* tenths of a kilogram, incomes in tenths of a rupee.                     *)
(***************************************************************************)
EXTENDS Integers, Sequences, FiniteSets, TLC

VARIABLES
    \* ---- YieldAdvisorLLM.get_yield_prediction, one call ----
    llm,            \* st.session_state.llm: "absent", "None" or "model"
    llamaCalls,     \* how often the Llama constructor has been invoked
    crop,           \* argument crop of the call
    acres,          \* argument acres of the call
    response,       \* what the language model did when it was invoked
    prediction,     \* return value of the call (None before it returns)
    calls,          \* how often each helper / the model was called
    parsed,         \* what get_recommendations returned
    advPc,          \* "ready" before the call, "done" after
    \* ---- render_yield_advisor_tab, one session ----
    sessionKeys,    \* which of the tab's keys st.session_state holds
    num_crops,      \* st.session_state.num_crops (meaningful once its key is set)
    total_income_value, \* st.session_state.total_income_value, tenths of a rupee
    trigger,        \* the button that caused the current script run
    row,            \* form rows the current run has processed
    rowCrops,       \* the crop names read from those rows, in row order
    predictions,    \* the local list predictions of the current run
    renderPc,       \* "idle" between runs, "rows" inside the form loop
    \* ---- render_profit_dashboard_tab, one session ----
    expenses,       \* st.session_state.expenses
    formRows,       \* the five rows of the expense form as last read
    submitted,      \* whether the last run was an "Add Expenses" submission
    metrics,        \* the metrics the last run displayed, None if it showed none
    revenue,        \* the revenue fields of the last run: the shared total
                    \* they read and whether the user adjusted a field
    \* ---- the location resolver and its caches ----
    now,            \* the clock, in seconds
    ticks,          \* how often the clock has advanced
    location_input, \* the text under test in the query specification
    geoCache,       \* st.cache_data of geocode_location: entries key, value, stored
    geoLog,         \* the calls of geocode_location so far, oldest first
    ipCache,        \* st.cache_data of get_location_from_ip: None or <<entry>>
    ipLog,          \* the calls of get_location_from_ip so far, oldest first
    fetchCache,     \* st.cache_data of fetch_weather_data and fetch_soil_data
    fetchLog        \* the calls of the two fetch functions so far, oldest first

advVars == <<llm, llamaCalls, crop, acres, response, prediction, calls, parsed, advPc>>
yieldVars == <<sessionKeys, num_crops, total_income_value, trigger, row,
               rowCrops, predictions, renderPc>>
profitVars == <<expenses, formRows, submitted, metrics, revenue>>
geoVars == <<now, ticks, location_input, geoCache, geoLog, ipCache, ipLog,
             fetchCache, fetchLog>>
vars == <<advVars, yieldVars, profitVars, geoVars>>

----------------------------------------------------------------------------
(* Python values *)

None == <<>>
Some(v) == <<v>>
IsNone(o) == o = <<>>
Val(o) == o[1]

\* str.strip() / str.isspace(): the whitespace characters
IsSpace(c) == c \in {" ", "\n", "\t", "\r"}

RECURSIVE LStrip(_)
LStrip(s) ==
    IF s # <<>> /\ IsSpace(Head(s)) THEN LStrip(Tail(s)) ELSE s

RECURSIVE RStrip(_)
RStrip(s) ==
    IF s # <<>> /\ IsSpace(s[Len(s)]) THEN RStrip(SubSeq(s, 1, Len(s) - 1)) ELSE s

\* str.strip()
Strip(s) == RStrip(LStrip(s))

UpperCase == <<"A","B","C","D","E","F","G","H","I","J","K","L","M",
               "N","O","P","Q","R","S","T","U","V","W","X","Y","Z">>
LowerCase == <<"a","b","c","d","e","f","g","h","i","j","k","l","m",
               "n","o","p","q","r","s","t","u","v","w","x","y","z">>

LowerChar(c) ==
    IF \E i \in 1..Len(UpperCase) : UpperCase[i] = c
    THEN LowerCase[CHOOSE i \in 1..Len(UpperCase) : UpperCase[i] = c]
    ELSE c

\* str.lower()
Lower(s) == [i \in 1..Len(s) |-> LowerChar(s[i])]

\* str.split(sep): the pieces between occurrences of sep (always >= 1 piece)
RECURSIVE SplitAcc(_, _, _)
SplitAcc(s, sep, cur) ==
    IF s = <<>> THEN <<cur>>
    ELSE IF Head(s) = sep THEN <<cur>> \o SplitAcc(Tail(s), sep, <<>>)
    ELSE SplitAcc(Tail(s), sep, Append(cur, Head(s)))

Split(s, sep) == SplitAcc(s, sep, <<>>)

\* str.replace(tok, ''): every occurrence removed
Remove(s, tok) == SelectSeq(s, LAMBDA t : t # tok)

\* line.startswith(label), the label being one token
StartsWith(line, tok) == line # <<>> /\ Head(line) = tok

IsDigit(t) == t \in {"0", "1", "2", "3", "4", "5", "6", "7", "8", "9"}

DigitVal(t) ==
    CASE t = "0" -> 0 [] t = "1" -> 1 [] t = "2" -> 2 [] t = "3" -> 3
      [] t = "4" -> 4 [] t = "5" -> 5 [] t = "6" -> 6 [] t = "7" -> 7
      [] t = "8" -> 8 [] t = "9" -> 9

RECURSIVE DigitsValue(_)
DigitsValue(s) ==
    IF s = <<>> THEN 0
    ELSE 10 * DigitsValue(SubSeq(s, 1, Len(s) - 1)) + DigitVal(s[Len(s)])

\* float(text): a decimal number surrounded by optional whitespace, else
\* ValueError.  [ok |-> FALSE] stands for the exception.
Float(s) ==
    LET t == Strip(s)
    IN  IF t # <<>> /\ \A i \in 1..Len(t) : IsDigit(t[i])
        THEN [ok |-> TRUE, value |-> DigitsValue(t)]
        ELSE [ok |-> FALSE, value |-> 0]

----------------------------------------------------------------------------
(* YieldAdvisorLLM *)

\* static_yields as written in __init__ (kg per hectare)
StaticYieldsPerHectare ==
    { <<<<"r", "i", "c", "e">>, 2873>>,
      <<<<"w", "h", "e", "a", "t">>, 3615>>,
      <<<<"j", "o", "w", "a", "r">>, 1175>>,
      <<<<"b", "a", "j", "r", "a">>, 1449>>,
      <<<<"m", "a", "i", "z", "e">>, 3321>>,
      <<<<"t", "u", "r">>, 831>>,
      <<<<"g", "r", "a", "m">>, 1224>>,
      <<<<"g", "r", "o", "u", "n", "d", "n", "u", "t">>, 2179>>,
      <<<<"r", "a", "p", "e", "s", "e", "e", "d", " ", "a", "n", "d", " ",
          "m", "u", "s", "t", "a", "r", "d">>, 1443>>,
      <<<<"s", "u", "g", "a", "r", "c", "a", "n", "e">>, 79000>>,
      <<<<"c", "o", "t", "t", "o", "n">>, 436>>,
      <<<<"j", "u", "t", "e">>, 2795>>,
      <<<<"m", "e", "s", "t", "a">>, 2056>>,
      <<<<"p", "o", "t", "a", "t", "o">>, 24000>>,
      <<<<"t", "e", "a">>, 2042>>,
      <<<<"c", "o", "f", "f", "e", "e">>, 780>>,
      <<<<"r", "u", "b", "b", "e", "r">>, 973>> }

\* `crop in self.static_yields`
StaticCrops == { e[1] : e \in StaticYieldsPerHectare }

\* yield_value / 2.47105 (= yield_value * 20000 / 49421), in tenths of a kg
\* per acre, by long division to stay inside 32-bit integers
PerAcre(yield_value) ==
    LET n == yield_value * 20000
    IN  (n \div 49421) * 10 + ((n % 49421) * 10) \div 49421

\* self.static_yields[crop] after the conversion of __init__
static_yields(c) ==
    PerAcre((CHOOSE e \in StaticYieldsPerHectare : e[1] = c)[2])

\* a slip: a handle left None by a failed construction is built again
CtorRunsWhenNone(l) == l \in {"absent", "None"}

\* if 'llm' not in st.session_state: the guard in front of Llama(...)
CtorRuns(l) == l = "absent"

\* initialize_llm: the constructor runs only when the key is absent
initialize_llm(l, ctorOk) ==
    IF CtorRuns(l) THEN (IF ctorOk THEN "model" ELSE "None") ELSE l

\* the constructor calls one initialize_llm() makes
Constructions(l) == IF CtorRuns(l) THEN 1 ELSE 0

\* the constructor calls one helper makes: get_price_from_llm and
\* get_recommendations call initialize_llm() when the handle is None
HelperConstructions(l) == IF l = "None" THEN Constructions(l) ELSE 0

\* The loop of parse_response over the lines; ok = FALSE is the exception
\* float() raises inside the try block.
RECURSIVE ParseLines(_, _, _)
ParseLines(lines, yield_value, price_value) ==
    IF lines = <<>> THEN [ok |-> TRUE, y |-> yield_value, p |-> price_value]
    ELSE
        LET line == Head(lines) IN
        IF StartsWith(line, "Yield:") THEN
            LET f == Float(Remove(line, "Yield:")) IN
            IF f.ok THEN ParseLines(Tail(lines), Some(f.value), price_value)
            ELSE [ok |-> FALSE, y |-> None, p |-> None]
        ELSE IF StartsWith(line, "Price:") THEN
            LET f == Float(Remove(line, "Price:")) IN
            IF f.ok THEN ParseLines(Tail(lines), yield_value, Some(f.value))
            ELSE [ok |-> FALSE, y |-> None, p |-> None]
        ELSE ParseLines(Tail(lines), yield_value, price_value)

\* a slip: the two values start at 0 instead of None
parse_response_default_zero(text) ==
    LET r == ParseLines(Split(Strip(text), "\n"), Some(0), Some(0))
    IN  IF r.ok THEN <<r.y, r.p>> ELSE <<None, None>>

\* parse_response: the pair (yield_value, price_value)
parse_response(text) ==
    LET r == ParseLines(Split(Strip(text), "\n"), None, None)
    IN  IF r.ok THEN <<r.y, r.p>> ELSE <<None, None>>

\* re.search(r'Price:\s*(\d+(?:\.\d+)?)', text): the leftmost "Price:" that
\* is followed, after optional whitespace, by digits; the digits matched.
RECURSIVE SkipSpace(_, _)
SkipSpace(text, i) ==
    IF i <= Len(text) /\ IsSpace(text[i]) THEN SkipSpace(text, i + 1) ELSE i

RECURSIVE DigitRunEnd(_, _)
DigitRunEnd(text, i) ==
    IF i <= Len(text) /\ IsDigit(text[i]) THEN DigitRunEnd(text, i + 1) ELSE i

PriceMatchAt(text, i) ==
    /\ text[i] = "Price:"
    /\ LET j == SkipSpace(text, i + 1) IN j <= Len(text) /\ IsDigit(text[j])

PriceSearch(text) ==
    IF \E i \in 1..Len(text) : PriceMatchAt(text, i)
    THEN LET i == CHOOSE k \in 1..Len(text) :
                    /\ PriceMatchAt(text, k)
                    /\ \A m \in 1..(k - 1) : ~PriceMatchAt(text, m)
             j == SkipSpace(text, i + 1)
         IN  Some(DigitsValue(SubSeq(text, j, DigitRunEnd(text, j) - 1)))
    ELSE None

\* get_price_from_llm: ret is the price or None, invoked tells whether the
\* model was called.  out is what the model does when it is called.
get_price_from_llm(l, out) ==
    IF initialize_llm(l, FALSE) = "None" THEN [ret |-> None, invoked |-> 0]
    ELSE IF out.raises THEN [ret |-> None, invoked |-> 1]
    ELSE [ret |-> PriceSearch(Strip(out.text)), invoked |-> 1]

\* get_recommendations: ret is the pair (yield, price)
get_recommendations(l, out) ==
    IF initialize_llm(l, FALSE) = "None"
    THEN [ret |-> <<None, None>>, invoked |-> 0]
    ELSE IF out.raises THEN [ret |-> <<None, None>>, invoked |-> 1]
    ELSE [ret |-> parse_response(Strip(out.text)), invoked |-> 1]

\* a slip: the error record keeps the yield that was already looked up
ErrorRecordWithYield(c, a, msg) ==
    [crop |-> c, acres |-> a, error |-> msg, yield_per_acre |-> 0]

ErrorRecord(c, a, msg) == [crop |-> c, acres |-> a, error |-> msg]

\* a slip: the table is consulted with the name as typed
NormalizeCropAsTyped(cropArg) == cropArg

\* crop = crop.lower().strip()
NormalizeCrop(cropArg) == Strip(Lower(cropArg))

\* the record built at "Calculate totals"; yield in tenths of a kg,
\* price in rupees, income in tenths of a rupee
FullRecord(c, a, yield_per_acre, price_per_kg) ==
    [crop |-> c, acres |-> a,
     yield_per_acre |-> yield_per_acre,
     expected_yield |-> a * yield_per_acre,
     price_per_kg |-> price_per_kg,
     total_income |-> (a * yield_per_acre) * price_per_kg,
     unit |-> "kg"]

NoCalls == [recommendations |-> 0, price |-> 0, model |-> 0]

\* get_yield_prediction(crop, acres) with the session's llm being l:
\* ret is the return value, calls counts the helper calls it made, rec is
\* what get_recommendations returned (None when it was not called).
get_yield_prediction(cropArg, a, l, out) ==
    IF cropArg = <<>> THEN [ret |-> None, calls |-> NoCalls, rec |-> None]
    ELSE
        LET c == NormalizeCrop(cropArg) IN
        IF c \in StaticCrops THEN
            LET pr == get_price_from_llm(l, out)
                n  == [recommendations |-> 0, price |-> 1, model |-> pr.invoked]
            IN  IF IsNone(pr.ret)
                THEN [ret |-> Some(ErrorRecord(c, a, "Could not determine price")),
                      calls |-> n, rec |-> None]
                ELSE [ret |-> Some(FullRecord(c, a, static_yields(c), Val(pr.ret))),
                      calls |-> n, rec |-> None]
        ELSE
            LET rc == get_recommendations(l, out)
                n  == [recommendations |-> 1, price |-> 0, model |-> rc.invoked]
            IN  IF IsNone(rc.ret[1]) \/ IsNone(rc.ret[2])
                THEN [ret |-> Some(ErrorRecord(c, a,
                                   "Could not determine yield or price")),
                      calls |-> n, rec |-> Some(rc.ret)]
                ELSE [ret |-> Some(FullRecord(c, a, Val(rc.ret[1]) * 10,
                                              Val(rc.ret[2]))),
                      calls |-> n, rec |-> Some(rc.ret)]

----------------------------------------------------------------------------
(* One call of get_yield_prediction on arbitrary inputs *)

MaxRespLen == 5

Tokens == {"Yield:", "Price:", " ", "\n", "2", "x"}

Texts(n) == UNION { [1..k -> Tokens] : k \in 0..n }

NoOutcome == [raises |-> FALSE, text |-> <<>>]

LlmOutcomes ==
    {[raises |-> TRUE, text |-> <<>>]}
        \cup { [raises |-> FALSE, text |-> t] : t \in Texts(MaxRespLen) }

CropInputs ==
    { <<>>, <<" ">>, <<"R", "i", "c", "e", " ">>, <<"m", "a", "n", "g", "o">> }

AcresInputs == {1, 2}

\* the yield advisor tab before its first script run
YieldIdle ==
    /\ sessionKeys = {}
    /\ num_crops = 0
    /\ total_income_value = 0
    /\ trigger = "none"
    /\ row = 0
    /\ rowCrops = <<>>
    /\ predictions = <<>>
    /\ renderPc = "idle"

\* the profit dashboard before its first script run
ProfitIdle ==
    /\ expenses = <<>>
    /\ formRows = <<>>
    /\ submitted = FALSE
    /\ metrics = None
    /\ revenue = [income |-> 0, adjusted |-> FALSE]

\* the location resolver before its first call, the caches empty
GeoIdle ==
    /\ now = 0
    /\ ticks = 0
    /\ location_input = <<>>
    /\ geoCache = {}
    /\ geoLog = <<>>
    /\ ipCache = None
    /\ ipLog = <<>>
    /\ fetchCache = {}
    /\ fetchLog = <<>>

\* no call of get_yield_prediction under observation
AdvisorIdle ==
    /\ crop = <<>>
    /\ acres = 1
    /\ response = NoOutcome
    /\ prediction = None
    /\ calls = NoCalls
    /\ parsed = None
    /\ advPc = "ready"

AdvisorInit ==
    /\ YieldIdle
    /\ ProfitIdle
    /\ GeoIdle
    /\ llm \in {"None", "model"}
    /\ llamaCalls = 1
    /\ crop \in CropInputs
    /\ acres \in AcresInputs
    /\ response = NoOutcome
    /\ prediction = None
    /\ calls = NoCalls
    /\ parsed = None
    /\ advPc = "ready"

CallGetYieldPrediction ==
    /\ advPc = "ready"
    /\ \E out \in LlmOutcomes :
         LET r == get_yield_prediction(crop, acres, llm, out) IN
         /\ r.calls.model = 0 => out = NoOutcome
         /\ response' = out
         /\ prediction' = r.ret
         /\ calls' = r.calls
         /\ parsed' = r.rec
         /\ llamaCalls' = llamaCalls
                + (r.calls.price + r.calls.recommendations)
                    * HelperConstructions(llm)
    /\ advPc' = "done"
    /\ UNCHANGED <<llm, crop, acres>>
    /\ UNCHANGED <<yieldVars, profitVars, geoVars>>

SpecAdvisor == AdvisorInit /\ [][CallGetYieldPrediction]_vars

----------------------------------------------------------------------------
(* Properties of get_yield_prediction *)

NumericFields == {"yield_per_acre", "expected_yield", "price_per_kg", "total_income"}

IsFullRecord(r) == NumericFields \subseteq DOMAIN r /\ "error" \notin DOMAIN r
IsErrorRecord(r) == "error" \in DOMAIN r /\ NumericFields \cap DOMAIN r = {}

\* C1: every record get_yield_prediction returns for a non-empty crop name
\* carries either all four numeric fields and no error, or an error and none
\* of the four numeric fields, whatever the model returned or raised.
C1_AllOrError ==
    (advPc = "done" /\ crop # <<>>) =>
        /\ prediction # None
        /\ IsFullRecord(Val(prediction)) \/ IsErrorRecord(Val(prediction))

\* the model raised during the call and the caller got an error record
C1_Witness ==
    /\ advPc = "done"
    /\ response.raises
    /\ prediction # None
    /\ IsErrorRecord(Val(prediction))

\* C2: a crop whose lower-cased, stripped name is in the static table gets no
\* get_recommendations call, one get_price_from_llm call and the table's
\* yield; any other non-empty name gets one get_recommendations call and no
\* get_price_from_llm call.
C2_KnownCropsSkipYieldPath ==
    (advPc = "done" /\ crop # <<>>) =>
        IF Strip(Lower(crop)) \in StaticCrops
        THEN /\ calls.recommendations = 0
             /\ calls.price = 1
             /\ IsFullRecord(Val(prediction)) =>
                    Val(prediction).yield_per_acre
                        = static_yields(Strip(Lower(crop)))
        ELSE /\ calls.recommendations = 1
             /\ calls.price = 0

\* "Rice " as typed: answered from the table with the model's price
C2_Witness ==
    /\ advPc = "done"
    /\ crop = <<"R", "i", "c", "e", " ">>
    /\ calls = [recommendations |-> 0, price |-> 1, model |-> 1]
    /\ IsFullRecord(Val(prediction))
    /\ Val(prediction).yield_per_acre = 11626

\* the text, once stripped, has a line that starts with the label
HasLine(text, label) ==
    LET t == Strip(text)
    IN  \E i \in 1..Len(t) : t[i] = label /\ (i = 1 \/ t[i - 1] = "\n")

\* get_recommendations invoked the model and got a text that lacks one of
\* the two required lines
IncompleteResponse ==
    /\ advPc = "done"
    /\ calls.recommendations = 1
    /\ calls.model = 1
    /\ ~response.raises
    /\ ~HasLine(response.text, "Yield:") \/ ~HasLine(response.text, "Price:")

\* C3 as stated: a response lacking either required line parses to
\* (None, None), never to one number and one None.
C3_BothNoneWhenLineMissing ==
    IncompleteResponse => Val(parsed) = <<None, None>>

\* C3 amended: a response lacking a required line parses to None for each
\* value whose line is absent, and get_yield_prediction answers with an
\* error record that carries no numeric field.
C3_MissingLineIsUndetermined ==
    IncompleteResponse =>
        /\ ~HasLine(response.text, "Yield:") => IsNone(Val(parsed)[1])
        /\ ~HasLine(response.text, "Price:") => IsNone(Val(parsed)[2])
        /\ IsErrorRecord(Val(prediction))

\* "Yield:2" alone: the parser keeps the yield, the prediction is an error
C3_Witness ==
    /\ IncompleteResponse
    /\ response.text = <<"Yield:", "2">>
    /\ Val(parsed) = <<Some(2), None>>
    /\ IsErrorRecord(Val(prediction))

----------------------------------------------------------------------------
(* render_yield_advisor_tab: one session, one script run after another.   *)
(* A run starts with the button that triggered it, walks the form rows and *)
(* ends with the handling of the submit button.                            *)

MaxCrops == 5

Min(a, b) == IF a < b THEN a ELSE b

\* "Add Crop": num_crops = min(5, num_crops + 1)
AddCrop(n) == Min(MaxCrops, n + 1)

\* a slip: the guard num_crops > 1 is left out
RemoveCropUnguarded(n) == n - 1

\* "Remove Crop": only when num_crops > 1
RemoveCrop(n) == IF n > 1 THEN n - 1 ELSE n

\* a slip: only successful predictions are kept
AppendPredictionIfComplete(preds, p) ==
    IF p # None /\ "error" \notin DOMAIN Val(p) THEN Append(preds, Val(p)) ELSE preds

\* `if prediction: predictions.append(prediction)`
AppendPrediction(preds, p) ==
    IF p # None /\ DOMAIN Val(p) # {} THEN Append(preds, Val(p)) ELSE preds

RECURSIVE SumIncome(_)
SumIncome(preds) ==
    IF preds = <<>> THEN 0 ELSE Head(preds).total_income + SumIncome(Tail(preds))

\* what the user may have typed into a crop name field
CropTexts ==
    { <<>>, <<" ">>, <<" ", "R", "i", "c", "e">>, <<"m", "a", "n", "g", "o">> }

\* the acres field, left at its default value 1.0
RowAcres == {1}

\* what the model may do when a row invokes it
RowOutcomes ==
    { [raises |-> TRUE, text |-> <<>>],
      [raises |-> FALSE, text |-> <<"Yield:", " ", "2", "\n", "Price:", " ", "2">>],
      [raises |-> FALSE, text |-> <<"Yield:", " ", "2">>],
      [raises |-> FALSE, text |-> <<"x">>] }

YieldInit ==
    /\ AdvisorIdle
    /\ ProfitIdle
    /\ GeoIdle
    /\ llm = "absent"
    /\ llamaCalls = 0
    /\ YieldIdle

\* StateManager.initialize_state(): the shared total starts at zero and an
\* existing value is kept (initialise-once, as for every session key)
initialize_state(keys, value) ==
    IF "total_income_value" \in keys THEN value ELSE 0

\* a slip: the total is published by every run that has predictions
PublishesIncomeOnEveryRun(trig, preds) ==
    /\ preds # <<>>
    /\ \A i \in 1..Len(preds) : "total_income" \in DOMAIN preds[i]

\* if submit_button: ... if predictions and all('total_income' in pred ...)
PublishesIncome(trig, preds) ==
    /\ trig = "submit"
    /\ preds # <<>>
    /\ \A i \in 1..Len(preds) : "total_income" \in DOMAIN preds[i]

\* The top of render_yield_advisor_tab: the shared state is initialised, the
\* advisor and num_crops are created on the first run, then the Add / Remove
\* buttons are handled.  ctorOk tells whether the Llama constructor succeeds
\* should it run.
RenderStart(button, ctorOk) ==
    /\ renderPc = "idle"
    /\ button # "none" => "num_crops" \in sessionKeys
    /\ llm' = IF "yield_advisor" \in sessionKeys THEN llm
              ELSE initialize_llm(llm, ctorOk)
    /\ llamaCalls' = IF "yield_advisor" \in sessionKeys THEN llamaCalls
                     ELSE llamaCalls + Constructions(llm)
    /\ total_income_value' = initialize_state(sessionKeys, total_income_value)
    /\ sessionKeys' = sessionKeys
                        \cup {"total_income_value", "yield_advisor", "num_crops"}
    /\ LET n == IF "num_crops" \in sessionKeys THEN num_crops ELSE 1
       IN  num_crops' = CASE button = "add" -> AddCrop(n)
                          [] button = "remove" -> RemoveCrop(n)
                          [] OTHER -> n
    /\ trigger' = button
    /\ predictions' = <<>>
    /\ row' = 0
    /\ rowCrops' = <<>>
    /\ renderPc' = "rows"
    /\ UNCHANGED <<crop, acres, response, prediction, calls, parsed, advPc>>
    /\ UNCHANGED <<profitVars, geoVars>>

\* One iteration of the loop over the form rows: the name is stripped and
\* lower-cased, and a non-empty name is handed to get_yield_prediction.
ProcessRow(text, a, out) ==
    /\ renderPc = "rows"
    /\ row < num_crops
    /\ LET c == Lower(Strip(text))
           r == get_yield_prediction(c, a, llm, out)
       IN  /\ rowCrops' = Append(rowCrops, c)
           /\ predictions' = IF c # <<>> THEN AppendPrediction(predictions, r.ret)
                             ELSE predictions
           /\ llamaCalls' = llamaCalls
                  + (r.calls.price + r.calls.recommendations)
                      * HelperConstructions(llm)
    /\ row' = row + 1
    /\ UNCHANGED <<sessionKeys, num_crops, total_income_value, trigger, renderPc>>
    /\ UNCHANGED <<llm, crop, acres, response, prediction, calls, parsed, advPc>>
    /\ UNCHANGED <<profitVars, geoVars>>

\* After the form: "Calculate Yield" publishes the total income when every
\* prediction carries one.
RenderEnd ==
    /\ renderPc = "rows"
    /\ row = num_crops
    /\ total_income_value' =
          IF PublishesIncome(trigger, predictions)
          THEN SumIncome(predictions)
          ELSE total_income_value
    /\ renderPc' = "idle"
    /\ UNCHANGED <<sessionKeys, num_crops, trigger, row, rowCrops, predictions>>
    /\ UNCHANGED <<advVars, profitVars, geoVars>>

YieldNext ==
    \/ \E button \in {"none", "add", "remove", "submit"}, ctorOk \in BOOLEAN :
          RenderStart(button, ctorOk)
    \/ \E text \in CropTexts, a \in RowAcres, out \in RowOutcomes :
          ProcessRow(text, a, out)
    \/ RenderEnd

SpecYield == YieldInit /\ [][YieldNext]_vars

\* the crop names of the records, in list order
RECURSIVE RecordCrops(_)
RecordCrops(preds) ==
    IF preds = <<>> THEN <<>> ELSE <<Head(preds).crop>> \o RecordCrops(Tail(preds))

\* C7: a model failure for one crop never aborts the batch: at every point of
\* a run the predictions list holds exactly one record per processed row with
\* a non-empty crop name, in row order, and a run ends only after all
\* num_crops rows were processed.
C7_OneRecordPerNamedRow ==
    /\ RecordCrops(predictions) = SelectSeq(rowCrops, LAMBDA c : c # <<>>)
    /\ Len(rowCrops) = row
    /\ (renderPc = "idle" /\ "num_crops" \in sessionKeys) => row = num_crops

\* a finished run of three rows: the first failed, the next two still
\* produced their records
C7_Witness ==
    /\ renderPc = "idle"
    /\ row = 3
    /\ Len(predictions) = 3
    /\ IsErrorRecord(predictions[1])
    /\ IsFullRecord(predictions[2])
    /\ IsErrorRecord(predictions[3])

\* C10: once the tab has run, num_crops is between 1 and 5 whatever the
\* sequence of Add Crop and Remove Crop presses.
C10_NumCropsInRange ==
    "num_crops" \in sessionKeys => (num_crops >= 1 /\ num_crops <= 5)

\* Add Crop was pressed at five rows and five rows remain
C10_Witness ==
    /\ trigger = "add"
    /\ num_crops = 5
    /\ renderPc = "idle"
    /\ row = 5

\* C12: within one session the Llama constructor is invoked at most once,
\* also after a failed initialisation: the handle, once set, never changes,
\* and while it is None every prediction of a run is an error record.
C12_ConstructedAtMostOnce ==
    [][ /\ llamaCalls' <= 1
        /\ llm # "absent" => llm' = llm
        /\ llm' = "None" =>
              \A i \in 1..Len(predictions') : IsErrorRecord(predictions'[i]) ]_vars

\* a later run of a session whose construction failed: a known and an
\* unknown crop were submitted and both came back as error records
C12_Witness ==
    /\ llm = "None"
    /\ llamaCalls = 1
    /\ trigger = "submit"
    /\ renderPc = "idle"
    /\ Len(predictions) >= 2
    /\ \E i, j \in 1..Len(predictions) :
          /\ predictions[i].crop \in StaticCrops
          /\ predictions[j].crop \notin StaticCrops
    /\ \A i \in 1..Len(predictions) : IsErrorRecord(predictions[i])

\* sum(pred['total_income'] for pred in predictions), by index
TotalIncome(preds) ==
    LET total[i \in 0..Len(preds)] ==
            IF i = 0 THEN 0 ELSE total[i - 1] + preds[i].total_income
    IN  total[Len(preds)]

\* the script run ends on a "Calculate Yield" submission whose predictions
\* are non-empty and all carry total_income
CompleteSubmissionEnds ==
    /\ renderPc = "rows"
    /\ renderPc' = "idle"
    /\ trigger = "submit"
    /\ predictions # <<>>
    /\ \A i \in 1..Len(predictions) : IsFullRecord(predictions[i])

\* C13: total_income_value is written only at the end of a "Calculate
\* Yield" submission whose predictions are non-empty and all carry
\* total_income, and then becomes their sum; every other step (a submission
\* with an error record, an empty submission, a run without submission)
\* leaves it unchanged.
C13_TotalIncomeFrame ==
    [][ IF CompleteSubmissionEnds
        THEN total_income_value' = TotalIncome(predictions)
        ELSE total_income_value' = total_income_value ]_vars

\* a submission with an error record has ended and the total published by
\* an earlier submission is still there
C13_Witness ==
    /\ trigger = "submit"
    /\ renderPc = "idle"
    /\ predictions # <<>>
    /\ \E i \in 1..Len(predictions) : IsErrorRecord(predictions[i])
    /\ \E i \in 1..Len(predictions) : IsFullRecord(predictions[i])
    /\ total_income_value > 0

----------------------------------------------------------------------------
(* render_profit_dashboard_tab.  An expense record is kept as its category *)
(* and amount (whole currency units); description and date are carried     *)
(* along untouched.  profit_margin is kept in hundredths of a percent.      *)

NumRows == 5
MaxExpenses == 3

\* a slip: the test `amount > 0` is left out
TempExpensesAnyAmount(rows) ==
    SelectSeq(rows, LAMBDA r : r.category # "")

\* the loop over the form rows: `if name and amount > 0: temp_expenses.append`
TempExpenses(rows) ==
    SelectSeq(rows, LAMBDA r : r.category # "" /\ r.amount > 0)

\* df_expenses['amount'].sum()
RECURSIVE SumAmounts(_)
SumAmounts(list) ==
    IF list = <<>> THEN 0 ELSE Head(list).amount + SumAmounts(Tail(list))

\* a slip: the operands are swapped
ProfitReversed(total_yield, total_expenses) == total_expenses - total_yield

\* profit = total_yield - total_expenses
Profit(total_yield, total_expenses) == total_yield - total_expenses

\* (profit / total_yield * 100) if total_yield > 0 else 0
ProfitMargin(profit, total_yield) ==
    IF total_yield > 0 THEN (profit * 10000) \div total_yield ELSE 0

\* "Display analytics if there are expenses"
Analytics(list, total_yield) ==
    IF list # <<>>
    THEN LET total_expenses == SumAmounts(list)
             profit == Profit(total_yield, total_expenses)
         IN  Some([total_yield |-> total_yield,
                   total_expenses |-> total_expenses,
                   profit |-> profit,
                   profit_margin |-> ProfitMargin(profit, total_yield)])
    ELSE None

\* a row as first drawn: no category chosen, amount 0
BlankRow == [category |-> "", amount |-> 0]

\* what a row the user edits may hold (the amount field has min_value 0)
FormRowChoices ==
    { BlankRow,
      [category |-> "", amount |-> 100],
      [category |-> "Seeds", amount |-> 0],
      [category |-> "Seeds", amount |-> 100],
      [category |-> "Labor", amount |-> 200],
      [category |-> "Seeds", amount |-> 50] }

\* the form as first drawn
BlankForm == [i \in 1..NumRows |-> BlankRow]

\* the rows the user edits; the other rows of the form stay blank
EditedRows == {1, 2, 3}

\* the forms a submission may carry
Forms ==
    { [i \in 1..NumRows |-> IF i \in EditedRows THEN g[i] ELSE BlankRow] :
        g \in [EditedRows -> FormRowChoices] }

\* the revenue field (min_value 0)
RevenueChoices == {0, 300, 1000}

ProfitInit ==
    /\ AdvisorIdle
    /\ GeoIdle
    /\ llm = "absent"
    /\ llamaCalls = 0
    /\ YieldIdle
    /\ ProfitIdle

\* value=10000.0 of the field "Enter Total Revenue/Yield ($)"
RevenueDefault == 10000

\* the field "Total Revenue/Yield" of line 13, in tenths of a rupee: it
\* shows the shared total unless the user has adjusted it
SharedRevenueField(income, adjusted) ==
    IF IsNone(adjusted) THEN income ELSE Val(adjusted) * 10

\* the field "Enter Total Revenue/Yield ($)" of line 44, in whole units: it
\* shows its default unless the user has adjusted it
RevenueField(adjusted) ==
    IF IsNone(adjusted) THEN RevenueDefault ELSE Val(adjusted)

\* total_yield is assigned from the first field and then again from the
\* second one; the metrics use the later assignment
TotalYield(first, second) == second

\* One script run of the tab: the shared state is initialised, both revenue
\* fields and the form rows are read, a submission extends the expense list,
\* and the metrics are computed when the list is not empty.  adjusted1 and
\* adjusted2 are what the user has entered into the two revenue fields,
\* None for a field left alone.
Dashboard(rows, isSubmit, adjusted1, adjusted2) ==
    /\ Len(expenses) + Len(TempExpenses(rows)) <= MaxExpenses
    /\ total_income_value' = initialize_state(sessionKeys, total_income_value)
    /\ sessionKeys' = sessionKeys \cup {"total_income_value"}
    /\ LET temp_expenses == TempExpenses(rows)
           list == IF isSubmit /\ temp_expenses # <<>>
                   THEN expenses \o temp_expenses ELSE expenses
           total_yield ==
               TotalYield(SharedRevenueField(total_income_value', adjusted1),
                          RevenueField(adjusted2))
       IN  /\ expenses' = list
           /\ metrics' = Analytics(list, total_yield)
    /\ revenue' = [income |-> total_income_value',
                   adjusted |-> ~IsNone(adjusted1) \/ ~IsNone(adjusted2)]
    /\ formRows' = rows
    /\ submitted' = isSubmit
    /\ UNCHANGED <<num_crops, trigger, row, rowCrops, predictions, renderPc>>
    /\ UNCHANGED <<advVars, geoVars>>

\* a run in which the user has entered total_yield into the field the
\* metrics use
RunDashboard(rows, isSubmit, total_yield) ==
    Dashboard(rows, isSubmit, None, Some(total_yield))

\* "Clear All Expenses", offered only while the list is not empty: the list
\* is emptied and the script reruns, now without analytics.
ClearAllExpenses ==
    /\ expenses # <<>>
    /\ expenses' = <<>>
    /\ metrics' = Analytics(<<>>, 0)
    /\ submitted' = FALSE
    /\ UNCHANGED <<formRows, revenue>>
    /\ UNCHANGED <<advVars, yieldVars, geoVars>>

ProfitNext ==
    \/ \E rows \in Forms, total_yield \in RevenueChoices :
          RunDashboard(rows, TRUE, total_yield)
    \/ \E total_yield \in RevenueChoices :
          RunDashboard(IF formRows = <<>> THEN BlankForm ELSE formRows,
                       FALSE, total_yield)
    \/ ClearAllExpenses

SpecProfit == ProfitInit /\ [][ProfitNext]_vars

Amounts(list) == [i \in 1..Len(list) |-> list[i].amount]

\* C8: whenever the expense list is not empty the dashboard shows
\* total_expenses = the sum of the recorded amounts, profit = total_yield -
\* total_expenses, and profit_margin = profit / total_yield * 100 (0 when
\* total_yield = 0); amounts [100, 200, 50] with revenue 1000 give 350, 650
\* and 65%.
C8_ProfitMetrics ==
    /\ expenses # <<>> <=> metrics # None
    /\ metrics # None =>
         LET m == Val(metrics) IN
         /\ m.total_yield >= 0
         /\ m.total_expenses = SumAmounts(expenses)
         /\ m.profit + m.total_expenses = m.total_yield
         /\ m.total_yield = 0 => m.profit_margin = 0
         /\ m.total_yield > 0 =>
               /\ m.profit_margin * m.total_yield <= m.profit * 10000
               /\ m.profit * 10000 < (m.profit_margin + 1) * m.total_yield
         /\ (Amounts(expenses) = <<100, 200, 50>> /\ m.total_yield = 1000) =>
               /\ m.total_expenses = 350
               /\ m.profit = 650
               /\ m.profit_margin = 6500

\* the scenario of the specification
C8_Witness ==
    /\ Amounts(expenses) = <<100, 200, 50>>
    /\ metrics # None
    /\ Val(metrics) = [total_yield |-> 1000, total_expenses |-> 350,
                       profit |-> 650, profit_margin |-> 6500]

\* the rows of a form that are neither without category nor without amount
FilledRows(rows) ==
    SelectSeq(rows, LAMBDA r : ~(r.category = "" \/ r.amount = 0))

\* C9: every step leaves only records with a non-negative amount in the
\* expense list; a submission appends exactly the rows that have a category
\* and a non-zero amount (so a row with an empty category or a zero amount
\* produces no record, and a submission of only such rows changes nothing);
\* a run without submission changes nothing; Clear All empties the list.
C9_SkippedRowsAddNothing ==
    [][ /\ \A i \in 1..Len(expenses') : expenses'[i].amount >= 0
        /\ \/ submitted' /\ expenses' = expenses \o FilledRows(formRows')
           \/ ~submitted' /\ expenses' = expenses
           \/ ~submitted' /\ expenses # <<>> /\ expenses' = <<>> ]_vars

\* a submission with an uncategorised row, a zero-amount row and one filled
\* row added exactly one record
C9_Witness ==
    /\ submitted
    /\ \E i \in 1..NumRows : formRows[i].category = "" /\ formRows[i].amount > 0
    /\ \E i \in 1..NumRows : formRows[i].category # "" /\ formRows[i].amount = 0
    /\ Len(FilledRows(formRows)) = 1
    /\ Len(expenses) = 1

----------------------------------------------------------------------------
(* yield_app.main: every script run renders the yield advisor tab and then *)
(* the profit dashboard, over one st.session_state.  The dashboard step is *)
(* taken between runs of the yield tab; a dashboard step that follows a     *)
(* yield run belongs to the same script run.                                *)

\* the expense forms of the combined application: blank, or one expense
AppForms ==
    { BlankForm,
      [i \in 1..NumRows |->
          IF i = 1 THEN [category |-> "Seeds", amount |-> 100] ELSE BlankRow] }

\* what the user may have entered into a revenue field: nothing, or a value
RevenueEntries == {None, Some(300)}

AppNext ==
    \/ \E button \in {"none", "submit"}, ctorOk \in BOOLEAN :
          RenderStart(button, ctorOk)
    \/ \E text \in CropTexts, a \in RowAcres, out \in RowOutcomes :
          ProcessRow(text, a, out)
    \/ RenderEnd
    \/ /\ renderPc = "idle"
       /\ "yield_advisor" \in sessionKeys
       /\ \E rows \in AppForms, isSubmit \in BOOLEAN,
             adjusted1 \in RevenueEntries, adjusted2 \in RevenueEntries :
             Dashboard(rows, isSubmit, adjusted1, adjusted2)
    \/ renderPc = "idle" /\ ClearAllExpenses

SpecApp == YieldInit /\ [][AppNext]_vars

\* the yield tab's last run was a "Calculate Yield" submission that set the
\* shared total, and the dashboard has since read that total
DashboardAfterPublication ==
    /\ renderPc = "idle"
    /\ PublishesIncome(trigger, predictions)
    /\ revenue.income = total_income_value
    /\ metrics # None

\* C11: after a successful "Calculate Yield" submission has set
\* total_income_value, and with the revenue fields left as the dashboard
\* drew them, the total_yield the metrics are computed from equals that
\* total_income_value.
C11_RevenueFromYield ==
    (DashboardAfterPublication /\ ~revenue.adjusted) =>
        /\ Val(metrics).total_yield * 10 = total_income_value
        /\ Val(metrics).profit =
              Val(metrics).total_yield - Val(metrics).total_expenses

----------------------------------------------------------------------------
(* The location resolver of final.py: geocode_location and                 *)
(* get_location_from_ip, each behind st.cache_data with a time to live.    *)

GeocodeTtl == 3600
IpTtl == 300
MaxCalls == 4
MaxIpCalls == 2
MaxTicks == 3
MaxLocLen == 7

\* the result both functions return when they resolve nothing
Unresolved == <<None, None, None>>

\* str.isdigit(): at least one character and every character a digit
isdigit(str) == str # <<>> /\ \A i \in 1..Len(str) : IsDigit(str[i])

\* a slip: the length test is left out
IsPincodeAnyLength(location_input_) == isdigit(location_input_)

\* `location_input.isdigit() and len(location_input) == 6`
IsPincode(location_input_) == isdigit(location_input_) /\ Len(location_input_) = 6

\* the string handed to geolocator.geocode
GeocodeQuery(location_input_) ==
    IF IsPincode(location_input_)
    THEN location_input_ \o <<",", " ", "I", "n", "d", "i", "a">>
    ELSE location_input_

\* the body of geocode_location; outcome is what the geocoding service does
\* with the query: "found", "miss" (no match) or "raise"
GeocodeBody(location_input_, outcome) ==
    IF outcome = "found"
    THEN <<Some(28), Some(77), Some(GeocodeQuery(location_input_))>>
    ELSE Unresolved

\* a slip: the decorator is left out, nothing is ever served from the cache
CacheNeverFresh(entry, t, ttl) == FALSE

\* st.cache_data(ttl=...): an entry is served while younger than ttl
CacheFresh(entry, t, ttl) == t - entry.stored < ttl

GeoCached(key) == { e \in geoCache : e.key = key /\ CacheFresh(e, now, GeocodeTtl) }

\* One call geocode_location(location_input_): served from the cache when a
\* fresh entry exists, else the body runs, sends one request and its result
\* is stored.  The log keeps the input, the time, the query sent (None when
\* none was sent) and the value returned.
CallGeocodeLocation(location_input_, outcome) ==
    /\ Len(geoLog) < MaxCalls
    /\ IF GeoCached(location_input_) # {}
       THEN LET e == CHOOSE e \in GeoCached(location_input_) : TRUE IN
            /\ geoLog' = Append(geoLog, [input |-> location_input_, time |-> now,
                                         query |-> None, value |-> e.value])
            /\ UNCHANGED geoCache
       ELSE LET v == GeocodeBody(location_input_, outcome) IN
            /\ geoLog' = Append(geoLog, [input |-> location_input_, time |-> now,
                                         query |-> Some(GeocodeQuery(location_input_)),
                                         value |-> v])
            /\ geoCache' = { e \in geoCache : e.key # location_input_ }
                              \cup {[key |-> location_input_, value |-> v,
                                     stored |-> now]}
    /\ UNCHANGED <<now, ticks, location_input, ipCache, ipLog, fetchCache, fetchLog>>
    /\ UNCHANGED <<advVars, yieldVars, profitVars>>

\* time passes
Tick(d) ==
    /\ ticks < MaxTicks
    /\ now' = now + d
    /\ ticks' = ticks + 1
    /\ UNCHANGED <<location_input, geoCache, geoLog, ipCache, ipLog>>
    /\ UNCHANGED <<fetchCache, fetchLog>>
    /\ UNCHANGED <<advVars, yieldVars, profitVars>>

GeoOutcomes == {"found", "miss", "raise"}

LocChars == {"1", "a"}

LocationStrings == UNION { [1..n -> LocChars] : n \in 0..MaxLocLen }

\* the texts the caching specification geocodes
GeoInputs ==
    { <<"1", "1", "0", "0", "0", "1">>, <<"D", "e", "l", "h", "i">> }

\* geocode_location called on one arbitrary text
GeoQueryInit ==
    /\ AdvisorIdle
    /\ llm = "absent"
    /\ llamaCalls = 0
    /\ YieldIdle
    /\ ProfitIdle
    /\ now = 0
    /\ ticks = 0
    /\ location_input \in LocationStrings
    /\ geoCache = {}
    /\ geoLog = <<>>
    /\ ipCache = None
    /\ ipLog = <<>>
    /\ fetchCache = {}
    /\ fetchLog = <<>>

GeoQueryNext ==
    \E outcome \in GeoOutcomes : CallGeocodeLocation(location_input, outcome)

SpecGeoQuery == GeoQueryInit /\ [][GeoQueryNext]_vars

\* geocode_location called again and again while time passes
GeoInit ==
    /\ AdvisorIdle
    /\ llm = "absent"
    /\ llamaCalls = 0
    /\ YieldIdle
    /\ ProfitIdle
    /\ GeoIdle

GeoNext ==
    \/ \E s \in GeoInputs, outcome \in GeoOutcomes : CallGeocodeLocation(s, outcome)
    \/ \E d \in {1, GeocodeTtl - 1} : Tick(d)

SpecGeo == GeoInit /\ [][GeoNext]_vars

\* exactly six characters, each one of 0..9
SixDigits(str) ==
    /\ Len(str) = 6
    /\ \A i \in 1..6 : str[i] \in {"0", "1", "2", "3", "4", "5", "6", "7", "8", "9"}

\* C4: every query geocode_location sends is '<input>, India' when the input
\* is six digits and the raw input otherwise; a call not served from the
\* cache sends one.
C4_PincodeGetsCountry ==
    \A i \in 1..Len(geoLog) :
        LET c == geoLog[i] IN
        /\ i = 1 => c.query # None
        /\ c.query # None =>
              IF SixDigits(c.input)
              THEN Val(c.query) = c.input \o <<",", " ", "I", "n", "d", "i", "a">>
              ELSE Val(c.query) = c.input

\* "111111" was geocoded as "111111, India"
C4_Witness ==
    /\ geoLog # <<>>
    /\ geoLog[1].input = <<"1", "1", "1", "1", "1", "1">>
    /\ geoLog[1].query = Some(<<"1", "1", "1", "1", "1", "1", ",", " ",
                                "I", "n", "d", "i", "a">>)

\* the requests the calls i..j of the log sent for the input of call i
RequestsBetween(i, j) ==
    Cardinality({ k \in i..j : geoLog[k].input = geoLog[i].input
                                /\ geoLog[k].query # None })

\* two calls with the same input, the second less than 3600 s after the first
SameInputWithinWindow(i, j) ==
    /\ i < j
    /\ geoLog[i].input = geoLog[j].input
    /\ geoLog[j].time - geoLog[i].time < GeocodeTtl

\* C5 as stated: two calls with the same input within 3600 s of the first
\* send at most one request in total and the second returns what the first
\* returned.
C5_SecondCallSameValue ==
    \A i, j \in 1..Len(geoLog) :
        SameInputWithinWindow(i, j) =>
            /\ RequestsBetween(i, j) <= 1
            /\ geoLog[j].value = geoLog[i].value

\* C5 amended: two calls with the same input within 3600 s of the first send
\* at most one request in total, and when the first of them is the call that
\* sent the request the second returns what the first returned.
C5_CachedWithinWindow ==
    \A i, j \in 1..Len(geoLog) :
        SameInputWithinWindow(i, j) =>
            /\ RequestsBetween(i, j) <= 1
            /\ geoLog[i].query # None =>
                  /\ geoLog[j].query = None
                  /\ geoLog[j].value = geoLog[i].value

\* a request at time 0 and the same input again 3599 s later, answered from
\* the cache with the same location
C5_Witness ==
    /\ Len(geoLog) >= 2
    /\ geoLog[1].input = geoLog[2].input
    /\ geoLog[1].query # None
    /\ geoLog[1].value # Unresolved
    /\ geoLog[2].time = 3599
    /\ geoLog[2].query = None
    /\ geoLog[2].value = geoLog[1].value

----------------------------------------------------------------------------
(* get_location_from_ip *)

LocationFields == {"lat", "lon", "city", "regionName", "country"}

\* what the request to the IP-geolocation service may do: raise, or answer
\* with a status and a body that is either not JSON or a JSON object holding
\* some of the location fields
IpOutcomes ==
    {[raises |-> TRUE, status |-> 0, json |-> FALSE, fields |-> {}]}
        \cup {[raises |-> FALSE, status |-> 500, json |-> FALSE, fields |-> {}]}
        \cup {[raises |-> FALSE, status |-> 200, json |-> FALSE, fields |-> {}]}
        \cup { [raises |-> FALSE, status |-> 200, json |-> TRUE, fields |-> f] :
                 f \in SUBSET LocationFields }

\* data.get(key): the value of a field, here its name tagged, or None
Get(fields, key) == IF key \in fields THEN Some(<<"value of", key>>) ELSE None

\* data.get(key, ''), as the characters it contributes to the f-string
GetText(fields, key) == IF key \in fields THEN <<key>> ELSE <<>>

\* f"{city}, {regionName}, {country}"
AddressOf(fields) ==
    GetText(fields, "city") \o <<", ">> \o GetText(fields, "regionName")
        \o <<", ">> \o GetText(fields, "country")

\* the body of get_location_from_ip
IpBody(outcome) ==
    IF outcome.raises THEN Unresolved
    ELSE IF outcome.status = 200
         THEN IF outcome.json
              THEN <<Get(outcome.fields, "lat"), Get(outcome.fields, "lon"),
                     Some(AddressOf(outcome.fields))>>
              ELSE Unresolved
         ELSE Unresolved

\* One call get_location_from_ip(): served from the cache while the entry is
\* younger than 300 s, else the request is made and its result stored.  The
\* log keeps the time, what the request did (None when none was made) and
\* the value returned.
CallGetLocationFromIp(outcome) ==
    /\ Len(ipLog) < MaxIpCalls
    /\ IF ipCache # None /\ CacheFresh(Val(ipCache), now, IpTtl)
       THEN /\ ipLog' = Append(ipLog, [time |-> now, requested |-> FALSE,
                                       outcome |-> None,
                                       value |-> Val(ipCache).value])
            /\ UNCHANGED ipCache
       ELSE LET v == IpBody(outcome) IN
            /\ ipLog' = Append(ipLog, [time |-> now, requested |-> TRUE,
                                       outcome |-> Some(outcome), value |-> v])
            /\ ipCache' = Some([value |-> v, stored |-> now])
    /\ UNCHANGED <<now, ticks, location_input, geoCache, geoLog>>
    /\ UNCHANGED <<fetchCache, fetchLog>>
    /\ UNCHANGED <<advVars, yieldVars, profitVars>>

IpNext ==
    \/ \E outcome \in IpOutcomes : CallGetLocationFromIp(outcome)
    \/ \E d \in {1, IpTtl - 1} : Tick(d)

SpecIp == GeoInit /\ [][IpNext]_vars

\* C6: whenever the request raises, answers with a status other than 200 or
\* answers with a body missing any location field, get_location_from_ip
\* returns (None, None, None); no returned triple mixes absent and present
\* fields.
C6_UniformUnresolved ==
    \A i \in 1..Len(ipLog) :
        LET c == ipLog[i] IN
        /\ (/\ c.requested
            /\ \/ Val(c.outcome).raises
               \/ Val(c.outcome).status # 200
               \/ ~Val(c.outcome).json
               \/ Val(c.outcome).fields # LocationFields) => c.value = Unresolved
        /\ \/ \A k \in 1..3 : c.value[k] = None
           \/ \A k \in 1..3 : c.value[k] # None

----------------------------------------------------------------------------
(* fetch_weather_data and fetch_soil_data: requests.get(...).json() behind  *)
(* st.cache_data, with no exception handler of their own.                   *)

WeatherTtl == 3600
SoilTtl == 86400
MaxFetchCalls == 2

FetchFunctions == {"fetch_weather_data", "fetch_soil_data"}

\* the ttl of the function's decorator
FetchTtl(fn) == IF fn = "fetch_weather_data" THEN WeatherTtl ELSE SoilTtl

\* the (url, params) pairs the functions are called with
FetchArgs == {"forecast"}

\* what requests.get(...).json() may do: raise, or return a body
FetchOutcomes == {"raise", "json"}

\* a slip: the exception is swallowed and the empty result is stored
FetchStoresAlways(outcome) == TRUE

\* st.cache_data stores what the function returns; a call that raises
\* returns nothing
FetchStores(outcome) == outcome # "raise"

FetchCached(fn, args) ==
    { e \in fetchCache :
        e.fn = fn /\ e.args = args /\ CacheFresh(e, now, FetchTtl(fn)) }

\* One call fn(url, params): served from the cache when a fresh entry
\* exists, else the body sends one request; a returned body is stored, an
\* exception leaves the function.  The log keeps the call, the time, whether
\* a request was sent, whether the call raised, and the value returned.
CallFetch(fn, args, outcome) ==
    /\ Len(fetchLog) < MaxFetchCalls
    /\ IF FetchCached(fn, args) # {}
       THEN LET e == CHOOSE e \in FetchCached(fn, args) : TRUE IN
            /\ fetchLog' = Append(fetchLog,
                    [fn |-> fn, args |-> args, time |-> now,
                     requested |-> FALSE, raised |-> FALSE, value |-> e.value])
            /\ UNCHANGED fetchCache
       ELSE LET v == IF outcome = "raise" THEN None ELSE Some(outcome) IN
            /\ fetchLog' = Append(fetchLog,
                    [fn |-> fn, args |-> args, time |-> now,
                     requested |-> TRUE, raised |-> outcome = "raise",
                     value |-> v])
            /\ fetchCache' =
                  IF FetchStores(outcome)
                  THEN { e \in fetchCache : ~(e.fn = fn /\ e.args = args) }
                          \cup {[fn |-> fn, args |-> args, value |-> v,
                                 stored |-> now]}
                  ELSE fetchCache
    /\ UNCHANGED <<now, ticks, location_input, geoCache, geoLog, ipCache, ipLog>>
    /\ UNCHANGED <<advVars, yieldVars, profitVars>>

\* the text the combined specification geocodes
FetchLocation == <<"D", "e", "l", "h", "i">>

\* geocode_location and the two fetch functions called in any order while
\* time passes in steps just short of an hour; MaxFetchCalls bounds the
\* geocoding calls as well as the fetch calls
FetchNext ==
    \/ /\ Len(geoLog) < MaxFetchCalls
       /\ \E outcome \in GeoOutcomes : CallGeocodeLocation(FetchLocation, outcome)
    \/ \E fn \in FetchFunctions, args \in FetchArgs, outcome \in FetchOutcomes :
          CallFetch(fn, args, outcome)
    \/ Tick(GeocodeTtl - 1)

SpecFetch == GeoInit /\ [][FetchNext]_vars

\* call j is the first call after call i with the same function and arguments
NextIdenticalFetch(i, j) ==
    /\ i < j
    /\ fetchLog[j].fn = fetchLog[i].fn
    /\ fetchLog[j].args = fetchLog[i].args
    /\ \A k \in (i + 1)..(j - 1) :
          ~(fetchLog[k].fn = fetchLog[i].fn /\ fetchLog[k].args = fetchLog[i].args)

\* C14: a geocoding that failed (miss or exception) is stored like a success:
\* a call with the identical input less than 3600 s after it sends no
\* request and returns the unresolved triple.  A fetch_weather_data or
\* fetch_soil_data call that raises returns no value and stores no entry:
\* the next identical call sends a request again.
C14_FailureMemoizedErrorNot ==
    /\ \A i, j \in 1..Len(geoLog) :
          (/\ i < j
           /\ geoLog[i].input = geoLog[j].input
           /\ geoLog[i].query # None
           /\ geoLog[i].value = Unresolved
           /\ geoLog[j].time - geoLog[i].time < GeocodeTtl)
          => (geoLog[j].query = None /\ geoLog[j].value = Unresolved)
    /\ \A i \in 1..Len(fetchLog) :
          fetchLog[i].raised =>
            /\ fetchLog[i].requested
            /\ fetchLog[i].value = None
            /\ \A j \in 1..Len(fetchLog) :
                  NextIdenticalFetch(i, j) => fetchLog[j].requested
            /\ (\A j \in 1..Len(fetchLog) : ~NextIdenticalFetch(i, j)) =>
                  \A e \in fetchCache :
                     (e.fn = fetchLog[i].fn /\ e.args = fetchLog[i].args)
                        => e.stored < fetchLog[i].time

\* a failed geocoding was served again from the cache a second later, and a
\* fetch that raised was followed at the same instant by an identical call
\* that sent its request
C14_Witness ==
    /\ \E i, j \in 1..Len(geoLog) :
          /\ i < j
          /\ geoLog[i].query # None
          /\ geoLog[i].value = Unresolved
          /\ geoLog[j].time > geoLog[i].time
          /\ geoLog[j].query = None
          /\ geoLog[j].value = Unresolved
    /\ \E i, j \in 1..Len(fetchLog) :
          /\ NextIdenticalFetch(i, j)
          /\ fetchLog[i].raised
          /\ fetchLog[j].time = fetchLog[i].time
          /\ fetchLog[j].requested

====
